---- MODULE Spec2Model ----
(***************************************************************************)
(* MaVi GPT: the App shell (auth subscription, route gating) and the Chat  *)
(* component (history load, send, generation call, background write).      *)
(*                                                                         *)
(* A text is a sequence of one-character strings (what the user types) or  *)
(* of tokens (what the services return); String.trim and String.includes   *)
(* are computed on those sequences.  A state update and the render that    *)
(* follows it are one step: React flushes the updates of a discrete event  *)
(* before the next event is dispatched.  A state update aimed at an        *)
(* unmounted Chat instance changes nothing (React drops it).               *)
(***************************************************************************)
EXTENDS Naturals, Sequences, FiniteSets

\* ------------------------------------------------------------------ bounds
MaxSends == 2   \* accepted sends in one run
MaxInst == 1    \* Chat instances mounted in one run

\* ------------------------------------------------------------ value sets
NoUser == "null"
Users == {"u1", "u2"}     \* owners of documents
Accounts == {"u1"}        \* the users who sign in in this tab
Paths == {"/", "/login", "/register", "/chat"}
AppPaths == Paths \cup {"/other"}   \* and a location no route matches

\* what the user may have in the textarea
Inputs == { <<>>, <<" ">>, <<" ", "a">> }

\* texts the model returns (response.text())
Responses == { <<"r1">> }

\* an Error object: message may be undefined
Err(defined, message) == [defined |-> defined, message |-> message]
NoErr == Err(FALSE, <<>>)

\* failures of model.generateContent
SdkErrors ==
    { Err(TRUE, <<"exceeded", "quota">>),
      Err(TRUE, <<"429">>),
      Err(TRUE, <<"fetch", "failed">>),
      Err(FALSE, <<>>) }

\* outcomes of model.generateContent
SdkOutcomes ==
    { [ok |-> TRUE, text |-> r, error |-> NoErr] : r \in Responses }
      \cup { [ok |-> FALSE, text |-> <<>>, error |-> e] : e \in SdkErrors }

\* a document of the 'chats' collection
Turn(u, p, r, t) == [userId |-> u, userPrompt |-> p, aiResponse |-> r, timestamp |-> t]

\* contents of the 'chats' collection when the page loads
InitStores ==
    { {},
      { Turn("u1", <<"b">>, <<"r1">>, 2), Turn("u2", <<"b">>, <<"r1">>, 1),
        Turn("u1", <<"a">>, <<"r1">>, 1) } }

VARIABLES
    strict,      \* StrictMode of a development build: every mount effect runs twice
    phase,       \* App: "new" (not mounted yet), "mounted", "tornDown"
    established, \* onAuthStateChanged calls so far
    disposed,    \* unsubscribe calls so far
    session,     \* the Identity Provider's current user
    notifyDue,   \* the provider owes the subscription a notification
    subs,        \* active onAuthStateChanged subscriptions
    user,        \* App state: user
    appLoading,  \* App state: loading
    path,        \* router location
    mounted,     \* a Chat instance is mounted
    cid,         \* id of the latest Chat instance (0: none yet)
    messages,    \* Chat state: messages
    input,       \* Chat state: input
    loading,     \* Chat state: loading
    loads,       \* getDocs calls not yet resolved
    genCalls,    \* generateResponse calls not yet resolved
    writes,      \* addDoc calls not yet resolved
    store,       \* documents of the 'chats' collection
    now,         \* the time new Date() returned last (each reading is later)
    sends,       \* accepted sends so far
    queries,     \* history queries issued so far, per owner
    login,       \* Login state: email, password, error, loading
    authCalls,   \* signInWithEmailAndPassword calls whose await has not returned
    ev           \* the handler or callback that ran last ("other": none of those below)

vars == <<strict, phase, established, disposed, session, notifyDue, subs, user, appLoading, path,
          mounted, cid, messages, input, loading,
          loads, genCalls, writes, store, now, sends, queries,
          login, authCalls, ev>>


\* ------------------------------------------------------- pure functions
\* String.prototype.trim
RECURSIVE TrimStart(_)
TrimStart(s) == IF s # <<>> /\ Head(s) = " " THEN TrimStart(Tail(s)) ELSE s

RECURSIVE TrimEnd(_)
TrimEnd(s) == IF s # <<>> /\ s[Len(s)] = " " THEN TrimEnd(SubSeq(s, 1, Len(s) - 1)) ELSE s

Trim(s) == TrimEnd(TrimStart(s))

\* String.prototype.includes, on token sequences
Includes(s, tok) == \E i \in DOMAIN s : s[i] = tok

\* truthiness of error.message
HasMessage(e) == e.defined /\ e.message # <<>>

QuotaMarker == <<"API Quota Exceeded!", "quota", "reset">>
RateMarker == <<"Rate Limit Exceeded!", "Too many requests">>
EmptyPromptError == Err(TRUE, <<"Prompt cannot be empty">>)
FallbackText == <<"Sorry, I encountered an error. Please try again.">>

Rejected(e) == [ok |-> FALSE, text |-> <<>>, error |-> e]

\* the catch block of generateResponse
ClassifyErrorRateFirst(e) ==
    IF HasMessage(e) /\ (Includes(e.message, "429") \/ Includes(e.message, "Too Many Requests"))
    THEN Rejected(Err(TRUE, RateMarker))
    ELSE IF HasMessage(e) /\ Includes(e.message, "quota")
    THEN Rejected(Err(TRUE, QuotaMarker))
    ELSE Rejected(e)

ClassifyErrorOnly429(e) ==
    IF HasMessage(e) /\ Includes(e.message, "quota")
    THEN Rejected(Err(TRUE, QuotaMarker))
    ELSE IF HasMessage(e) /\ Includes(e.message, "429")
    THEN Rejected(Err(TRUE, RateMarker))
    ELSE Rejected(e)

ClassifyError(e) ==
    IF HasMessage(e) /\ Includes(e.message, "quota")
    THEN Rejected(Err(TRUE, QuotaMarker))
    ELSE IF HasMessage(e) /\ (Includes(e.message, "429") \/ Includes(e.message, "Too Many Requests"))
    THEN Rejected(Err(TRUE, RateMarker))
    ELSE Rejected(e)

\* generateResponse(prompt), given what model.generateContent would do;
\* PromptIsEmpty: the validation that throws before the model is called
PromptIsEmptyNoTrim(prompt) == prompt = <<>>
PromptIsEmpty(prompt) == prompt = <<>> \/ Len(Trim(prompt)) = 0

generateResponse(prompt, sdk) ==
    IF PromptIsEmpty(prompt)
    THEN ClassifyError(EmptyPromptError)
    ELSE IF sdk.ok THEN sdk ELSE ClassifyError(sdk.error)

\* error.message || 'Sorry, ...'
errorMessageNoFallback(e) == e.message
errorMessage(e) == IF HasMessage(e) THEN e.message ELSE FallbackText

Msg(text, sender) == [text |-> text, sender |-> sender]

\* the guard of handleSend: the send goes on
CanSendNoLoading(inp, ld) == ~(Trim(inp) = <<>>)
CanSendNoTrim(inp, ld) == ~(inp = <<>> \/ ld)
CanSend(inp, ld) == ~(Trim(inp) = <<>> \/ ld)

\* the Send button's disabled attribute
ButtonDisabled == loading \/ Trim(input) = <<>>

\* chatHistory.forEach: two messages per turn
RECURSIVE formattedMessages(_)
formattedMessages(h) ==
    IF h = <<>> THEN <<>>
    ELSE << Msg(Head(h).userPrompt, "user"), Msg(Head(h).aiResponse, "ai") >>
         \o formattedMessages(Tail(h))

\* querySnapshot.forEach: the fields kept of each document
chatHistory(snapshot) ==
    [i \in DOMAIN snapshot |->
        [userPrompt |-> snapshot[i].userPrompt,
         aiResponse |-> snapshot[i].aiResponse,
         timestamp |-> snapshot[i].timestamp]]

\* the snapshots a query matching the documents D, ascending by timestamp, may return
Ordered(D) ==
    LET n == Cardinality(D)
        ok(g) == \A j, k \in 1..n :
                    j < k => g[j] # g[k] /\ g[j].timestamp <= g[k].timestamp
    IN { g \in [1..n -> D] : ok(g) }

\* query(collection(db,'chats'), where('userId','==',uid), orderBy('timestamp','asc'))
QueryNoWhere(st, uid) == Ordered(st)
Query(st, uid) == Ordered({ d \in st : d.userId = uid })

\* the element App's route table renders at location p
Element(u, p) ==
    CASE p = "/login" ->
            IF u # NoUser THEN [view |-> "navigate", to |-> "/chat"]
            ELSE [view |-> "login", to |-> p]
      [] p = "/register" ->
            IF u # NoUser THEN [view |-> "navigate", to |-> "/chat"]
            ELSE [view |-> "register", to |-> p]
      [] p = "/chat" ->
            IF u # NoUser THEN [view |-> "chat", to |-> p]
            ELSE [view |-> "navigate", to |-> "/login"]
      [] p = "/" ->
            [view |-> "navigate", to |-> IF u # NoUser THEN "/chat" ELSE "/login"]
      [] OTHER -> [view |-> "none", to |-> p]

\* the location after <Navigate> has redirected
Resolve(u, p) == IF Element(u, p).view = "navigate" THEN Element(u, p).to ELSE p

\* the view App renders
ViewNoLoading == Element(user, path).view
View == IF appLoading THEN "loading" ELSE Element(user, path).view

\* the runs of a mount effect
EffectRuns == IF strict THEN {1, 2} ELSE {1}

\* the instance a pending call belongs to is still mounted
Live(inst) == mounted /\ inst = cid


\* Login's state when it mounts: the four useState initial values
LoginFresh == [email |-> <<>>, password |-> <<>>, error |-> <<>>, loading |-> FALSE]

\* ----------------------------------------------------------------- Init
InitWith(dev) ==
    /\ strict = dev
    /\ phase = "mounted"
    /\ established = (IF dev THEN 2 ELSE 1)
    /\ disposed = (IF dev THEN 1 ELSE 0)
    /\ session \in {NoUser} \cup Accounts
    /\ notifyDue = TRUE
    /\ subs = 1
    /\ user = NoUser
    /\ appLoading = TRUE
    /\ path \in Paths
    /\ mounted = FALSE
    /\ cid = 0
    /\ messages = <<>>
    /\ input = <<>>
    /\ loading = FALSE
    /\ loads = {}
    /\ genCalls = {}
    /\ writes = {}
    /\ store \in InitStores
    /\ now = 2
    /\ sends = 0
    /\ queries = [u \in Users |-> 0]
    /\ login = LoginFresh
    /\ authCalls = {}
    /\ ev = [kind |-> "other"]

\* the production build
Init == InitWith(FALSE)

\* the development build, where StrictMode is in effect
InitDev == InitWith(TRUE)

\* ------------------------------------------------- Chat mount / unmount
\* Chat({user}) mounts: fresh state, and the history effect runs
ChatMount(u) ==
    /\ cid < MaxInst
    /\ mounted' = TRUE
    /\ cid' = cid + 1
    /\ messages' = <<>>
    /\ input' = <<>>
    /\ loading' = FALSE
    /\ loads' = loads \cup { [inst |-> cid + 1, uid |-> u, run |-> r] : r \in EffectRuns }
    /\ queries' = [queries EXCEPT ![u] = @ + Cardinality(EffectRuns)]

\* Chat unmounts: its state is dropped, its pending calls stay pending
ChatUnmount ==
    /\ mounted' = FALSE
    /\ messages' = <<>>
    /\ input' = <<>>
    /\ loading' = FALSE
    /\ UNCHANGED <<cid, loads, queries>>

\* the user prop changed under a mounted Chat: the [user] effect runs again
ChatUserChanged(u) ==
    /\ loads' = loads \cup { [inst |-> cid, uid |-> u, run |-> 3] }
    /\ queries' = [queries EXCEPT ![u] = @ + 1]
    /\ UNCHANGED <<mounted, cid, messages, input, loading>>

\* what a render of App with user u at the location path' does to Chat;
\* left: the location left /chat
ChatRender(u, left) ==
    IF Element(u, path').view # "chat" THEN
        IF mounted THEN ChatUnmount
        ELSE UNCHANGED <<mounted, cid, messages, input, loading, loads, queries>>
    ELSE IF mounted /\ ~left /\ u = user THEN
        UNCHANGED <<mounted, cid, messages, input, loading, loads, queries>>
    ELSE IF mounted /\ ~left THEN ChatUserChanged(u)
    ELSE ChatMount(u)

\* what a render of App with user u at the location path' does to Login;
\* left: the location left /login.  An unmounted Login loses its state and
\* the updates its pending calls will make are dropped
LoginRender(u, left) ==
    IF View = "login" /\ ~left /\ Element(u, path').view = "login"
    THEN UNCHANGED <<login, authCalls>>
    ELSE /\ login' = LoginFresh
         /\ authCalls' = { [c EXCEPT !.live = FALSE] : c \in authCalls }

\* ------------------------------------------------------------ App shell
\* the onAuthStateChanged callback
AuthNotify ==
    /\ subs > 0
    /\ notifyDue
    /\ notifyDue' = FALSE
    /\ user' = session
    /\ appLoading' = FALSE
    /\ path' = Resolve(session, path)
    /\ ChatRender(session, FALSE)
    /\ LoginRender(session, FALSE)
    /\ ev' = [kind |-> "other"]
    /\ UNCHANGED <<strict, phase, established, disposed, session, subs, genCalls, writes, store, now, sends>>

\* Login: signInWithEmailAndPassword succeeds for u
SignIn(u) ==
    /\ View = "login"
    /\ session = NoUser
    /\ session' = u
    /\ notifyDue' = TRUE
    /\ ev' = [kind |-> "other"]
    /\ UNCHANGED <<strict, login, authCalls, phase, established, disposed, subs, user, appLoading, path, mounted, cid, messages, input,
                   loading, loads, genCalls, writes, store, now, sends, queries>>

\* Navbar: signOut succeeds
SignOut ==
    /\ ~appLoading
    /\ user # NoUser
    /\ session # NoUser
    /\ session' = NoUser
    /\ notifyDue' = TRUE
    /\ ev' = [kind |-> "other"]
    /\ UNCHANGED <<strict, login, authCalls, phase, established, disposed, subs, user, appLoading, path, mounted, cid, messages, input,
                   loading, loads, genCalls, writes, store, now, sends, queries>>

\* the location changes to p (navigate('/chat'), navigate('/login'), history)
Navigate(p) ==
    /\ ~appLoading
    /\ p # path
    /\ path' = Resolve(user, p)
    /\ ChatRender(user, TRUE)
    /\ LoginRender(user, TRUE)
    /\ ev' = [kind |-> "other"]
    /\ UNCHANGED <<strict, phase, established, disposed, session, notifyDue, subs, user, appLoading,
                   genCalls, writes, store, now, sends>>


\* ----------------------------------------------------------------- Chat
\* onChange of the textarea: setInput(e.target.value)
HandleChange(v) ==
    /\ mounted
    /\ input' = v
    /\ ev' = [kind |-> "other"]
    /\ UNCHANGED <<strict, login, authCalls, phase, established, disposed, session, notifyDue, subs, user, appLoading, path, mounted, cid,
                   messages, loading, loads, genCalls, writes, store, now, sends, queries>>

\* handleSend up to its await: the guard, the optimistic append, the call
handleSendCallsFirst ==
    /\ mounted
    /\ IF CanSend(input, loading)
       THEN LET userMessage == Trim(input) IN
            /\ sends < MaxSends
            /\ input' = <<>>
            /\ messages' = Append(messages, Msg(userMessage, "user"))
            /\ loading' = TRUE
            /\ genCalls' = genCalls \cup
                  { [id |-> sends + 1, inst |-> cid, uid |-> user,
                     raw |-> input, prompt |-> userMessage, pre |-> messages,
                     shown |-> messages] }
            /\ sends' = sends + 1
            /\ ev' = [kind |-> "handleSend", inst |-> cid, started |-> sends + 1]
       ELSE /\ ev' = [kind |-> "handleSend", inst |-> cid, started |-> 0]
            /\ UNCHANGED <<input, messages, loading, genCalls, sends>>
    /\ UNCHANGED <<strict, login, authCalls, phase, established, disposed, session, notifyDue, subs, user, appLoading, path, mounted, cid,
                   loads, writes, store, now, queries>>

handleSendRaw ==
    /\ mounted
    /\ IF CanSend(input, loading)
       THEN LET userMessage == input IN
            /\ sends < MaxSends
            /\ input' = <<>>
            /\ messages' = Append(messages, Msg(userMessage, "user"))
            /\ loading' = TRUE
            /\ genCalls' = genCalls \cup
                  { [id |-> sends + 1, inst |-> cid, uid |-> user,
                     raw |-> input, prompt |-> userMessage, pre |-> messages,
                     shown |-> Append(messages, Msg(userMessage, "user"))] }
            /\ sends' = sends + 1
            /\ ev' = [kind |-> "handleSend", inst |-> cid, started |-> sends + 1]
       ELSE /\ ev' = [kind |-> "handleSend", inst |-> cid, started |-> 0]
            /\ UNCHANGED <<input, messages, loading, genCalls, sends>>
    /\ UNCHANGED <<strict, login, authCalls, phase, established, disposed, session, notifyDue, subs, user, appLoading, path, mounted, cid,
                   loads, writes, store, now, queries>>

handleSend ==
    /\ mounted
    /\ IF CanSend(input, loading)
       THEN LET userMessage == Trim(input) IN
            /\ sends < MaxSends
            /\ input' = <<>>
            /\ messages' = Append(messages, Msg(userMessage, "user"))
            /\ loading' = TRUE
            /\ genCalls' = genCalls \cup
                  { [id |-> sends + 1, inst |-> cid, uid |-> user,
                     raw |-> input, prompt |-> userMessage, pre |-> messages,
                     shown |-> Append(messages, Msg(userMessage, "user"))] }
            /\ sends' = sends + 1
            /\ ev' = [kind |-> "handleSend", inst |-> cid, started |-> sends + 1]
       ELSE /\ ev' = [kind |-> "handleSend", inst |-> cid, started |-> 0]
            /\ UNCHANGED <<input, messages, loading, genCalls, sends>>
    /\ UNCHANGED <<strict, login, authCalls, phase, established, disposed, session, notifyDue, subs, user, appLoading, path, mounted, cid,
                   loads, writes, store, now, queries>>

\* onClick of the Send button
ClickSend ==
    /\ mounted
    /\ ~ButtonDisabled
    /\ handleSend

\* handleKeyPress: Enter without Shift sends, any other key does nothing
HandleKeyPress(key, shift) ==
    /\ mounted
    /\ IF key = "Enter" /\ ~shift
       THEN handleSend
       ELSE /\ ev' = [kind |-> "other"]
            /\ UNCHANGED <<strict, login, authCalls, phase, established, disposed, session, notifyDue, subs, user, appLoading, path,
                           mounted, cid, messages, input, loading, loads, genCalls,
                           writes, store, now, sends, queries>>

\* handleSend after generateResponse resolved with aiResponse: lines 110-125
GenSuccessNoWrite(c, aiResponse, t) ==
    /\ IF Live(c.inst)
       THEN /\ messages' = Append(messages, Msg(aiResponse, "ai"))
            /\ loading' = FALSE
       ELSE UNCHANGED <<messages, loading>>
    /\ UNCHANGED writes
    /\ now' = t

GenSuccessNoAppend(c, aiResponse, t) ==
    /\ IF Live(c.inst)
       THEN /\ messages' = messages
            /\ loading' = FALSE
       ELSE UNCHANGED <<messages, loading>>
    /\ writes' = writes \cup { Turn(c.uid, c.prompt, aiResponse, t) }
    /\ now' = t

GenSuccessAwaitsWrite(c, aiResponse, t) ==
    /\ IF Live(c.inst)
       THEN /\ messages' = Append(messages, Msg(aiResponse, "ai"))
            /\ loading' = loading
       ELSE UNCHANGED <<messages, loading>>
    /\ writes' = writes \cup { Turn(c.uid, c.prompt, aiResponse, t) }
    /\ now' = t

GenSuccess(c, aiResponse, t) ==
    /\ IF Live(c.inst)
       THEN /\ messages' = Append(messages, Msg(aiResponse, "ai"))
            /\ loading' = FALSE
       ELSE UNCHANGED <<messages, loading>>
    /\ writes' = writes \cup { Turn(c.uid, c.prompt, aiResponse, t) }
    /\ now' = t

\* handleSend after generateResponse rejected with error: lines 127-138
GenFailureKeepsLoading(c, error) ==
    /\ IF Live(c.inst)
       THEN /\ messages' = Append(messages, Msg(errorMessage(error), "ai"))
            /\ loading' = loading
       ELSE UNCHANGED <<messages, loading>>
    /\ UNCHANGED <<writes, now>>

GenFailure(c, error) ==
    /\ IF Live(c.inst)
       THEN /\ messages' = Append(messages, Msg(errorMessage(error), "ai"))
            /\ loading' = FALSE
       ELSE UNCHANGED <<messages, loading>>
    /\ UNCHANGED <<writes, now>>

\* the generateResponse call c settles; sdk is what model.generateContent did
GenResolveRetries(c, sdk) ==
    /\ c \in genCalls
    /\ LET res == generateResponse(c.prompt, sdk) IN
       IF res.ok
       THEN /\ genCalls' = genCalls \ {c}
            /\ GenSuccess(c, res.text, now + 1)
            /\ ev' = [kind |-> "genOk", call |-> c, sdk |-> sdk, text |-> res.text]
       ELSE /\ genCalls' = genCalls
            /\ GenFailure(c, res.error)
            /\ ev' = [kind |-> "genFail", call |-> c, sdk |-> sdk,
                      text |-> errorMessage(res.error)]
    /\ UNCHANGED <<strict, login, authCalls, phase, established, disposed, session, notifyDue, subs, user,
                   appLoading, path, mounted, cid, input, loads, store, sends, queries>>

GenResolve(c, sdk) ==
    /\ c \in genCalls
    /\ genCalls' = genCalls \ {c}
    /\ LET res == generateResponse(c.prompt, sdk) IN
       IF res.ok
       THEN /\ GenSuccess(c, res.text, now + 1)
            /\ ev' = [kind |-> "genOk", call |-> c, sdk |-> sdk, text |-> res.text]
       ELSE /\ GenFailure(c, res.error)
            /\ ev' = [kind |-> "genFail", call |-> c, sdk |-> sdk,
                      text |-> errorMessage(res.error)]
    /\ UNCHANGED <<strict, login, authCalls, phase, established, disposed, session, notifyDue, subs, user, appLoading, path, mounted, cid,
                   input, loads, store, sends, queries>>

\* loadChatHistory after getDocs resolved with snapshot: lines 55-74
LoadSuccess(l, snapshot) ==
    IF Live(l.inst)
    THEN messages' = formattedMessages(chatHistory(snapshot))
    ELSE UNCHANGED messages

\* the getDocs call l resolves
LoadResolve(l) ==
    /\ l \in loads
    /\ loads' = loads \ {l}
    /\ \E snapshot \in Query(store, l.uid) :
          /\ LoadSuccess(l, snapshot)
          /\ ev' = [kind |-> "loadOk", load |-> l, snapshot |-> snapshot]
    /\ UNCHANGED <<strict, login, authCalls, phase, established, disposed, session, notifyDue, subs, user, appLoading, path, mounted, cid,
                   input, loading, genCalls, writes, store, now, sends, queries>>

\* the getDocs call l rejects: logged, nothing else
LoadRejectShowsError(l) ==
    /\ l \in loads
    /\ loads' = loads \ {l}
    /\ messages' = IF Live(l.inst) THEN Append(messages, Msg(FallbackText, "ai"))
                   ELSE messages
    /\ ev' = [kind |-> "loadFail", load |-> l]
    /\ UNCHANGED <<strict, login, authCalls, phase, established, disposed, session, notifyDue, subs, user,
                   appLoading, path, mounted, cid, input, loading, genCalls, writes,
                   store, now, sends, queries>>

LoadReject(l) ==
    /\ l \in loads
    /\ loads' = loads \ {l}
    /\ ev' = [kind |-> "loadFail", load |-> l]
    /\ UNCHANGED <<strict, login, authCalls, phase, established, disposed, session, notifyDue, subs, user, appLoading, path, mounted, cid,
                   messages, input, loading, genCalls, writes, store, now, sends, queries>>

\* the addDoc call w resolves: the document is stored
WriteResolve(w) ==
    /\ w \in writes
    /\ store' = store \cup {w}
    /\ writes' = writes \ {w}
    /\ ev' = [kind |-> "other"]
    /\ UNCHANGED <<strict, login, authCalls, phase, established, disposed, session, notifyDue, subs, user, appLoading, path, mounted, cid,
                   messages, input, loading, loads, genCalls, now, sends, queries>>

\* the addDoc call w rejects: logged, nothing else
WriteRejectShowsError(w) ==
    /\ w \in writes
    /\ writes' = writes \ {w}
    /\ messages' = IF mounted THEN Append(messages, Msg(FallbackText, "ai")) ELSE messages
    /\ ev' = [kind |-> "other"]
    /\ UNCHANGED <<strict, login, authCalls, phase, established, disposed, session, notifyDue, subs, user,
                   appLoading, path, mounted, cid, input, loading, loads, genCalls,
                   store, now, sends, queries>>

WriteReject(w) ==
    /\ w \in writes
    /\ writes' = writes \ {w}
    /\ ev' = [kind |-> "other"]
    /\ UNCHANGED <<strict, login, authCalls, phase, established, disposed, session, notifyDue, subs, user, appLoading, path, mounted, cid,
                   messages, input, loading, loads, genCalls, store, now, sends, queries>>

\* ----------------------------------------------------------------- Next
Next ==
    \/ AuthNotify
    \/ \E u \in Accounts : SignIn(u)
    \/ SignOut
    \/ \E p \in Paths : Navigate(p)
    \/ \E v \in Inputs : HandleChange(v)
    \/ ClickSend
    \/ \E key \in {"Enter", "a"}, shift \in BOOLEAN : HandleKeyPress(key, shift)
    \/ \E c \in genCalls, sdk \in SdkOutcomes : GenResolve(c, sdk)
    \/ \E l \in loads : LoadResolve(l)
    \/ \E l \in loads : LoadReject(l)
    \/ \E w \in writes : WriteResolve(w)
    \/ \E w \in writes : WriteReject(w)

Spec == Init /\ [][Next]_vars

SpecDev == InitDev /\ [][Next]_vars

\* one visit of the chat view (no second sign-in, no navigation), where every
\* generateResponse call settles: the promise of model.generateContent
\* resolves or rejects
Settle == \E c \in genCalls, sdk \in SdkOutcomes : GenResolve(c, sdk)

NextLive ==
    \/ AuthNotify
    \/ SignOut
    \/ \E v \in Inputs : HandleChange(v)
    \/ ClickSend
    \/ \E key \in {"Enter", "a"}, shift \in BOOLEAN : HandleKeyPress(key, shift)
    \/ Settle
    \/ \E l \in loads : LoadResolve(l)
    \/ \E l \in loads : LoadReject(l)
    \/ \E w \in writes : WriteResolve(w)
    \/ \E w \in writes : WriteReject(w)

SpecLive == Init /\ [][NextLive]_vars /\ WF_vars(Settle)


\* -------------------------------------------- the App shell's lifetime
\* App mounts: the subscription effect runs; under StrictMode it runs, is
\* cleaned up and runs again before anything else happens
AppMount ==
    /\ phase = "new"
    /\ phase' = "mounted"
    /\ established' = established + Cardinality(EffectRuns)
    /\ disposed' = disposed + (Cardinality(EffectRuns) - 1)
    /\ subs' = subs + 1
    /\ ev' = [kind |-> "other"]
    /\ UNCHANGED <<strict, login, authCalls, session, notifyDue, user, appLoading, path, mounted, cid,
                   messages, input, loading, loads, genCalls, writes, store, now,
                   sends, queries>>

\* App unmounts: the effect's cleanup runs, App's and Chat's state are dropped
AppTeardownNoCleanup ==
    /\ phase = "mounted"
    /\ phase' = "tornDown"
    /\ UNCHANGED <<disposed, subs>>
    /\ user' = NoUser
    /\ appLoading' = TRUE
    /\ IF mounted THEN ChatUnmount
       ELSE UNCHANGED <<mounted, cid, messages, input, loading, loads, queries>>
    /\ ev' = [kind |-> "other"]
    /\ UNCHANGED <<strict, login, authCalls, established, session, notifyDue, path, genCalls, writes,
                   store, now, sends>>

AppTeardown ==
    /\ phase = "mounted"
    /\ phase' = "tornDown"
    /\ disposed' = disposed + subs
    /\ subs' = 0
    /\ user' = NoUser
    /\ appLoading' = TRUE
    /\ IF mounted THEN ChatUnmount
       ELSE UNCHANGED <<mounted, cid, messages, input, loading, loads, queries>>
    /\ ev' = [kind |-> "other"]
    /\ UNCHANGED <<strict, login, authCalls, established, session, notifyDue, path, genCalls, writes,
                   store, now, sends>>

\* before createRoot(...).render(...): either build, any location
InitApp ==
    /\ strict \in BOOLEAN
    /\ phase = "new"
    /\ established = 0
    /\ disposed = 0
    /\ session \in {NoUser} \cup Accounts
    /\ notifyDue = TRUE
    /\ subs = 0
    /\ user = NoUser
    /\ appLoading = TRUE
    /\ path \in AppPaths
    /\ mounted = FALSE
    /\ cid = 0
    /\ messages = <<>>
    /\ input = <<>>
    /\ loading = FALSE
    /\ loads = {}
    /\ genCalls = {}
    /\ writes = {}
    /\ store \in InitStores
    /\ now = 2
    /\ sends = 0
    /\ queries = [u \in Users |-> 0]
    /\ login = LoginFresh
    /\ authCalls = {}
    /\ ev = [kind |-> "other"]

NextApp ==
    \/ AppMount
    \/ AuthNotify
    \/ \E u \in Accounts : SignIn(u)
    \/ SignOut
    \/ \E p \in AppPaths : Navigate(p)
    \/ \E l \in loads : LoadResolve(l)
    \/ \E l \in loads : LoadReject(l)
    \/ AppTeardown

SpecApp == InitApp /\ [][NextApp]_vars


\* ------------------------------------ the failures of generateContent
MaxTokens == 3   \* tokens in an error message

\* the tokens an error message of the SDK is made of
ErrTokens == {"quota", "429", "Too Many Requests", "failed", "Quota"}

RECURSIVE TokenSeqs(_)
TokenSeqs(n) ==
    IF n = 0 THEN { <<>> }
    ELSE TokenSeqs(n - 1) \cup
         { Append(m, t) : m \in { x \in TokenSeqs(n - 1) : Len(x) = n - 1 }, t \in ErrTokens }

GenErrors == { Err(TRUE, m) : m \in TokenSeqs(MaxTokens) } \cup { NoErr }

GenOutcomes ==
    { [ok |-> TRUE, text |-> r, error |-> NoErr] : r \in Responses }
      \cup { [ok |-> FALSE, text |-> <<>>, error |-> e] : e \in GenErrors }

\* a Chat of u1 with no history, right after its first send was accepted
InitGen ==
    /\ strict = FALSE
    /\ phase = "mounted"
    /\ established = 1
    /\ disposed = 0
    /\ session = "u1"
    /\ notifyDue = FALSE
    /\ subs = 1
    /\ user = "u1"
    /\ appLoading = FALSE
    /\ path = "/chat"
    /\ mounted = TRUE
    /\ cid = 1
    /\ messages = << Msg(<<"a">>, "user") >>
    /\ input = <<>>
    /\ loading = TRUE
    /\ loads = {}
    /\ genCalls = { [id |-> 1, inst |-> 1, uid |-> "u1", raw |-> <<" ", "a">>,
                     prompt |-> <<"a">>, pre |-> <<>>,
                     shown |-> << Msg(<<"a">>, "user") >>] }
    /\ writes = {}
    /\ store = {}
    /\ now = 2
    /\ sends = 1
    /\ queries = [u \in Users |-> IF u = "u1" THEN 1 ELSE 0]
    /\ login = LoginFresh
    /\ authCalls = {}
    /\ ev = [kind |-> "handleSend", inst |-> 1, started |-> 1]

NextGen == \E c \in genCalls, sdk \in GenOutcomes : GenResolve(c, sdk)

SpecGen == InitGen /\ [][NextGen]_vars


\* ------------------------------------------- generateResponse by itself
MaxPrompt == 2   \* characters in a prompt

RECURSIVE Prompts(_)
Prompts(n) ==
    IF n = 0 THEN { <<>> }
    ELSE Prompts(n - 1) \cup
         { Append(m, ch) : m \in { x \in Prompts(n - 1) : Len(x) = n - 1 }, ch \in {" ", "a"} }

\* generateResponse is about to be called with a prompt; sdk is what
\* model.generateContent does if it is called
InitPrompt ==
    /\ strict = FALSE
    /\ phase = "mounted"
    /\ established = 1
    /\ disposed = 0
    /\ session = NoUser
    /\ notifyDue = TRUE
    /\ subs = 1
    /\ user = NoUser
    /\ appLoading = TRUE
    /\ path = "/"
    /\ mounted = FALSE
    /\ cid = 0
    /\ messages = <<>>
    /\ input = <<>>
    /\ loading = FALSE
    /\ loads = {}
    /\ genCalls = {}
    /\ writes = {}
    /\ store = {}
    /\ now = 2
    /\ sends = 0
    /\ queries = [u \in Users |-> 0]
    /\ login = LoginFresh
    /\ authCalls = {}
    /\ \E p \in Prompts(MaxPrompt), sdk \in GenOutcomes :
          ev = [kind |-> "call", prompt |-> p, sdk |-> sdk]

\* generateResponse(prompt) runs to its end
Generate ==
    /\ ev.kind = "call"
    /\ ev' = [kind |-> "generateResponse", prompt |-> ev.prompt, sdk |-> ev.sdk,
              called |-> ~PromptIsEmpty(ev.prompt),
              res |-> generateResponse(ev.prompt, ev.sdk)]
    /\ UNCHANGED <<strict, login, authCalls, phase, established, disposed, session, notifyDue, subs, user,
                   appLoading, path, mounted, cid, messages, input, loading, loads,
                   genCalls, writes, store, now, sends, queries>>

SpecPrompt == InitPrompt /\ [][Generate]_vars


\* ------------------------------------------------------ the Login form
MaxLogins == 2   \* signInWithEmailAndPassword calls awaited at one time

\* what the user may have in the two fields
Emails == { <<>>, <<"e">> }
Passwords == { <<>>, <<"p">> }

\* rejections of signInWithEmailAndPassword
LoginErrors ==
    { Err(TRUE, <<"auth/invalid-credential">>), Err(TRUE, <<>>), Err(FALSE, <<>>) }

FillAllFields == <<"Please fill in all fields">>
LoginFallback == <<"Failed to login">>

\* !email || !password
FieldsMissingEmailOnly(em, pw) == em = <<>>
FieldsMissing(em, pw) == em = <<>> \/ pw = <<>>

\* err.message || 'Failed to login'
loginError(e) == IF HasMessage(e) THEN e.message ELSE LoginFallback

\* onChange of the email field
SetEmail(v) ==
    /\ View = "login"
    /\ login' = [login EXCEPT !.email = v]
    /\ ev' = [kind |-> "other"]
    /\ UNCHANGED <<strict, authCalls, phase, established, disposed, session, notifyDue,
                   subs, user, appLoading, path, mounted, cid, messages, input, loading,
                   loads, genCalls, writes, store, now, sends, queries>>

\* onChange of the password field
SetPassword(v) ==
    /\ View = "login"
    /\ login' = [login EXCEPT !.password = v]
    /\ ev' = [kind |-> "other"]
    /\ UNCHANGED <<strict, authCalls, phase, established, disposed, session, notifyDue,
                   subs, user, appLoading, path, mounted, cid, messages, input, loading,
                   loads, genCalls, writes, store, now, sends, queries>>

\* handleLogin up to its await: the validation, the flags, the call
handleLogin ==
    /\ View = "login"
    /\ IF FieldsMissing(login.email, login.password)
       THEN /\ login' = [login EXCEPT !.error = FillAllFields]
            /\ ev' = [kind |-> "handleLogin", called |-> FALSE]
            /\ UNCHANGED authCalls
       ELSE /\ Cardinality(authCalls) < MaxLogins
            /\ login' = [login EXCEPT !.loading = TRUE, !.error = <<>>]
            /\ LET id == CHOOSE i \in 1..MaxLogins : \A c \in authCalls : c.id # i IN
               authCalls' = authCalls \cup
                  { [id |-> id, email |-> login.email, password |-> login.password,
                     live |-> TRUE, status |-> "pending"] }
            /\ ev' = [kind |-> "handleLogin", called |-> TRUE]
    /\ UNCHANGED <<strict, phase, established, disposed, session, notifyDue,
                   subs, user, appLoading, path, mounted, cid, messages, input, loading,
                   loads, genCalls, writes, store, now, sends, queries>>

\* the Identity Provider accepts the credentials of the call c: u is signed
\* in, the promise of c will resolve
SignInSucceeds(c, u) ==
    /\ c \in authCalls
    /\ c.status = "pending"
    /\ session' = u
    /\ notifyDue' = TRUE
    /\ authCalls' = (authCalls \ {c}) \cup { [c EXCEPT !.status = "ok"] }
    /\ ev' = [kind |-> "other"]
    /\ UNCHANGED <<strict, login, phase, established, disposed,
                   subs, user, appLoading, path, mounted, cid, messages, input, loading,
                   loads, genCalls, writes, store, now, sends, queries>>

\* handleLogin after the await returned: navigate('/chat'), then finally.
\* Leaving /login unmounts Login, also when /chat sends a location without
\* a user back to /login, where a new Login mounts
LoginResolve(c) ==
    /\ c \in authCalls
    /\ c.status = "ok"
    /\ IF path = "/chat"
       THEN /\ authCalls' = authCalls \ {c}
            /\ UNCHANGED <<path, login, mounted, cid, messages, input, loading, loads, queries>>
       ELSE /\ path' = Resolve(user, "/chat")
            /\ ChatRender(user, TRUE)
            /\ login' = LoginFresh
            /\ authCalls' = { [x EXCEPT !.live = FALSE] : x \in authCalls \ {c} }
    /\ ev' = [kind |-> "loginOk", call |-> c]
    /\ UNCHANGED <<strict, phase, established, disposed, session, notifyDue,
                   subs, user, appLoading, genCalls, writes, store, now, sends>>

\* handleLogin after the await threw: catch, then finally
LoginReject(c, e) ==
    /\ c \in authCalls
    /\ c.status = "pending"
    /\ authCalls' = authCalls \ {c}
    /\ IF c.live
       THEN login' = [login EXCEPT !.error = loginError(e), !.loading = FALSE]
       ELSE UNCHANGED login
    /\ ev' = [kind |-> "loginFail", call |-> c, error |-> e]
    /\ UNCHANGED <<strict, phase, established, disposed, session, notifyDue,
                   subs, user, appLoading, path, mounted, cid, messages, input, loading,
                   loads, genCalls, writes, store, now, sends, queries>>

\* App has had its first notification, nobody is signed in, Login is shown
InitLogin ==
    /\ strict = FALSE
    /\ phase = "mounted"
    /\ established = 1
    /\ disposed = 0
    /\ session = NoUser
    /\ notifyDue = FALSE
    /\ subs = 1
    /\ user = NoUser
    /\ appLoading = FALSE
    /\ path = "/login"
    /\ mounted = FALSE
    /\ cid = 0
    /\ messages = <<>>
    /\ input = <<>>
    /\ loading = FALSE
    /\ loads = {}
    /\ genCalls = {}
    /\ writes = {}
    /\ store \in InitStores
    /\ now = 2
    /\ sends = 0
    /\ queries = [u \in Users |-> 0]
    /\ login = LoginFresh
    /\ authCalls = {}
    /\ ev = [kind |-> "other"]

NextLogin ==
    \/ \E v \in Emails : SetEmail(v)
    \/ \E v \in Passwords : SetPassword(v)
    \/ handleLogin
    \/ \E c \in authCalls, u \in Accounts : SignInSucceeds(c, u)
    \/ \E c \in authCalls : LoginResolve(c)
    \/ \E c \in authCalls, e \in LoginErrors : LoginReject(c, e)
    \/ AuthNotify

SpecLogin == InitLogin /\ [][NextLogin]_vars


\* --------------------------------------------------------------- claims
IsPrefix(s, t) == Len(s) <= Len(t) /\ SubSeq(t, 1, Len(s)) = s
Last(s) == s[Len(s)]
GenSettled(e) == e.kind \in {"genOk", "genFail"}
Outstanding(inst) == { c \in genCalls : c.inst = inst }

\* C1: every Chat instance has at most one generateResponse call outstanding,
\* and the mounted instance has one exactly while its loading flag is set.
C1_AtMostOneGeneration ==
    /\ \A i \in 1..cid : Cardinality(Outstanding(i)) <= 1
    /\ mounted => (loading <=> Outstanding(cid) # {})

\* a call is outstanding while the textarea holds text a send would accept
C1_Witness == mounted /\ loading /\ Outstanding(cid) # {} /\ Trim(input) # <<>>

\* C2: a send invoked while the instance's earlier call is outstanding changes
\* nothing, and a call is only ever started by a send that finds none outstanding
\* (a rejected send is not queued and run when the earlier call settles).
C2_RejectedSendIsNoOp ==
    [][ /\ (ev'.kind = "handleSend" /\ Outstanding(cid) # {})
            => UNCHANGED <<messages, input, loading, genCalls, writes, store>>
        /\ (genCalls' \ genCalls # {})
            => (ev'.kind = "handleSend" /\ Outstanding(cid) = {}
                /\ Cardinality(genCalls' \ genCalls) = 1) ]_vars

\* a send with non-blank input has just been turned down for the outstanding call
C2_Witness ==
    /\ ev.kind = "handleSend" /\ ev.started = 0
    /\ mounted /\ Outstanding(cid) # {} /\ Trim(input) # <<>>

\* C3 (as claimed): while one Chat instance lives, every step leaves the messages
\* already in the sequence where they are and only appends.
C3_AppendOnly ==
    [][ (mounted /\ mounted' /\ cid' = cid) => IsPrefix(messages, messages') ]_vars

\* C4 (as claimed): once the call of an accepted send of prompt P has succeeded
\* with R, the sequence is what it was before the send plus {P,user},{R,ai}, and
\* a write of {owner, P, R} is pending.
C4_SuccessAddsPromptAndResponse ==
    (ev.kind = "genOk" /\ Live(ev.call.inst)) =>
        /\ messages = ev.call.pre \o << Msg(ev.call.prompt, "user"), Msg(ev.text, "ai") >>
        /\ \E w \in writes :
              w.userId = ev.call.uid /\ w.userPrompt = ev.call.prompt
              /\ w.aiResponse = ev.text

\* C5: when a generateResponse call fails, the step appends exactly one ai message
\* holding the failure text (the quota marker for a quota failure) to the mounted
\* instance that made the call and clears its loading flag, and starts no write;
\* writes are started by successful calls only.
C5_FailureAppendsOnlyError ==
    [][ /\ ev'.kind = "genFail" =>
            /\ writes' = writes /\ store' = store
            /\ Live(ev'.call.inst) =>
                  /\ messages' = Append(messages, Msg(ev'.text, "ai"))
                  /\ loading' = FALSE
                  /\ ev'.text # <<>>
                  /\ (ev'.sdk.error.defined /\ Includes(ev'.sdk.error.message, "quota"))
                        => ev'.text = QuotaMarker
        /\ (writes' \ writes # {}) => (ev'.kind = "genOk" /\ ev'.sdk.ok) ]_vars

\* a quota failure has just been shown in the mounted Chat
C5_Witness ==
    /\ ev.kind = "genFail" /\ Live(ev.call.inst)
    /\ ev.text = QuotaMarker /\ Last(messages) = Msg(QuotaMarker, "ai") /\ ~loading

\* C6: a send whose input is empty or only whitespace changes nothing.
C6_BlankSendIsNoOp ==
    [][ (ev'.kind = "handleSend" /\ Trim(input) = <<>>)
            => UNCHANGED <<messages, input, loading, genCalls, writes, store, sends>> ]_vars

\* a send of a whitespace-only input has just been turned down, nothing in flight
C6_Witness ==
    /\ ev.kind = "handleSend" /\ ev.started = 0
    /\ mounted /\ ~loading /\ input = <<" ">>

\* C7: after a successful history load for an owner with N stored turns, the
\* sequence has 2N messages: the i-th turn in ascending timestamp order gives the
\* user message at 2i-1 and the ai message at 2i; no other owner's turn is used.
C7_LoadFlattens ==
    (ev.kind = "loadOk" /\ Live(ev.load.inst)) =>
        LET own == { d \in store : d.userId = ev.load.uid }
            N == Cardinality(own)
            snap == ev.snapshot
        IN /\ Len(snap) = N
           /\ Len(messages) = 2 * N
           /\ \A d \in own : \E i \in 1..N : snap[i] = d
           /\ \A i \in 1..N :
                 /\ snap[i] \in own
                 /\ messages[2 * i - 1] = Msg(snap[i].userPrompt, "user")
                 /\ messages[2 * i] = Msg(snap[i].aiResponse, "ai")
           /\ \A i, j \in 1..N : i < j => snap[i].timestamp <= snap[j].timestamp

\* the history of an owner with two turns has just been loaded from a store that
\* holds another owner's turn as well
C7_Witness ==
    /\ ev.kind = "loadOk" /\ Live(ev.load.inst)
    /\ Len(messages) = 4
    /\ \E d \in store : d.userId # ev.load.uid

\* C8 (as claimed): at most one history query is issued per owner.
C8_OneQueryPerOwner == \A u \in Users : queries[u] <= 1

\* C9 (as claimed): when a call of a torn-down instance settles, nothing is
\* updated and no write is started.
C9_TornDownResponseDiscarded ==
    [][ (GenSettled(ev') /\ ~Live(ev'.call.inst))
            => UNCHANGED <<mounted, cid, messages, input, loading, writes>> ]_vars

\* C9 (amended): when a call of a torn-down instance settles, no Chat state is
\* updated; a failure starts no write, but a success still starts the write of
\* {owner, prompt, response} for the owner the send was made for.
C9_TornDownResponseStillPersisted ==
    [][ (GenSettled(ev') /\ ~Live(ev'.call.inst)) =>
            /\ UNCHANGED <<mounted, cid, messages, input, loading, store>>
            /\ ev'.kind = "genFail" => writes' = writes
            /\ ev'.kind = "genOk" =>
                  /\ Cardinality(writes' \ writes) = 1
                  /\ writes \subseteq writes'
                  /\ \A w \in writes' \ writes :
                        /\ w.userId = ev'.call.uid
                        /\ w.userPrompt = ev'.call.prompt
                        /\ w.aiResponse = ev'.text ]_vars

\* the response to a send of a Chat that has since been unmounted was persisted
C9_Witness ==
    /\ ev.kind = "genOk" /\ ~Live(ev.call.inst)
    /\ \E w \in writes : w.userPrompt = ev.call.prompt /\ w.aiResponse = ev.text

\* C10 (as claimed): after the call of an accepted send has settled, the sequence
\* is one message longer than before the send if the call failed, two if it
\* succeeded.
C10_GrowsByOneOrTwo ==
    (GenSettled(ev) /\ Live(ev.call.inst)) =>
        Len(messages) = Len(ev.call.pre) + (IF ev.kind = "genOk" THEN 2 ELSE 1)

\* C10 (amended): an accepted send appends exactly one user message, and the
\* settling of its call appends exactly one ai message to the still-mounted
\* instance, when the call fails as when it succeeds.
C10_OneAppendPerStep ==
    [][ /\ (ev'.kind = "handleSend" /\ genCalls' # genCalls) =>
            /\ Len(messages') = Len(messages) + 1
            /\ IsPrefix(messages, messages')
            /\ Last(messages').sender = "user"
        /\ (GenSettled(ev') /\ Live(ev'.call.inst)) =>
            /\ Len(messages') = Len(messages) + 1
            /\ IsPrefix(messages, messages')
            /\ Last(messages').sender = "ai" ]_vars

\* a failed send has left two more messages than there were before it
C10_Witness ==
    /\ ev.kind = "genFail" /\ Live(ev.call.inst)
    /\ Len(messages) = Len(ev.call.pre) + 2

\* C11: a generateResponse call is issued only by an accepted send, after
\* the user message was appended (the sequence the call was issued under is
\* the old one plus that message), with the trimmed input as its prompt, and
\* no getDocs, addDoc or other generateResponse call is issued or settled in
\* that step.
C11_AppendBeforeCall ==
    [][ \A c \in genCalls' \ genCalls :
            /\ ev'.kind = "handleSend"
            /\ c.raw = input
            /\ c.prompt = Trim(input)
            /\ c.shown = Append(messages, Msg(Trim(input), "user"))
            /\ messages' = c.shown
            /\ genCalls' = genCalls \cup {c}
            /\ UNCHANGED <<loads, writes, store>> ]_vars

C11_Witness ==
    /\ ev.kind = "handleSend"
    /\ ev.started # 0
    /\ \E c \in genCalls :
          /\ c.id = ev.started
          /\ c.raw # c.prompt
          /\ Last(messages) = Msg(c.prompt, "user")

\* C12: a step in which an addDoc call fails (it leaves the pending writes
\* and stores nothing) changes nothing of the Chat: the messages, the input,
\* the in-flight flag and the pending calls are what they were, so the next
\* send is accepted or refused exactly as before the failure.
C12_WriteFailureChangesNothing ==
    [][ (writes' # writes /\ writes' \subseteq writes /\ store' = store)
            => /\ UNCHANGED <<mounted, cid, messages, input, loading, genCalls, loads, sends>>
               /\ CanSend(input', loading') = CanSend(input, loading) ]_vars

\* a turn is on screen whose write failed, and the next send would be accepted
C12_Witness ==
    /\ mounted
    /\ store = {}
    /\ writes = {}
    /\ messages = << Msg(<<"a">>, "user"), Msg(<<"r1">>, "ai") >>
    /\ CanSend(input, loading)

\* C13: generateResponse is called once per accepted send and never again:
\* a step issues a call exactly when it is an accepted send, it issues one,
\* and the step in which a call settles (with a response or a failure)
\* removes that call and issues none.
C13_OneCallPerAcceptedSend ==
    [][ /\ (genCalls' \ genCalls # {} \/ sends' # sends)
            => /\ ev'.kind = "handleSend"
               /\ sends' = sends + 1
               /\ Cardinality(genCalls' \ genCalls) = 1
               /\ genCalls \subseteq genCalls'
        /\ GenSettled(ev')
            => /\ ev'.call \in genCalls
               /\ genCalls' = genCalls \ {ev'.call}
               /\ sends' = sends ]_vars

\* a call failed and nothing is outstanding after it
C13_Witness ==
    /\ ev.kind = "genFail"
    /\ Live(ev.call.inst)
    /\ sends = 1
    /\ genCalls = {}

\* C14 (as stated): after a getDocs failure the message sequence is empty,
\* and no message was appended, the in-flight flag and the pending calls
\* unchanged.
C14_FailedLoadLeavesEmpty ==
    [][ (ev'.kind = "loadFail" /\ Live(ev'.load.inst))
            => /\ messages' = <<>>
               /\ UNCHANGED <<input, loading, genCalls, writes, store, sends>> ]_vars

\* C14 (amended): a getDocs failure leaves the message sequence as it was
\* (empty unless a send was accepted before the failure), appends no
\* message, and leaves the input, the in-flight flag and the pending calls
\* unchanged.
C14_FailedLoadChangesNothing ==
    [][ ev'.kind = "loadFail"
            => UNCHANGED <<mounted, cid, messages, input, loading, genCalls, writes,
                           store, sends>> ]_vars

\* the history of the user was not loaded (the query failed), and a send
\* was accepted afterwards
C14_Witness ==
    /\ ev.kind = "handleSend"
    /\ ev.started # 0
    /\ mounted
    /\ loads = {}
    /\ \E d \in store : d.userId = user
    /\ messages = << Msg(<<"a">>, "user") >>

\* C15 (as stated): the document handed to addDoc on success carries the
\* input as typed, with the owner, the response and the current time.
C15_PersistsRawText ==
    ev.kind = "genOk"
        => Turn(ev.call.uid, ev.call.raw, ev.text, now) \in writes

\* C15 (amended): the document handed to addDoc on success carries the
\* trimmed input (the text that was displayed and sent to the model), with
\* the owner, the response and the current time.
C15_PersistsTrimmedText ==
    ev.kind = "genOk"
        => Turn(ev.call.uid, Trim(ev.call.raw), ev.text, now) \in writes

C15_Witness ==
    /\ ev.kind = "genOk"
    /\ ev.call.raw # Trim(ev.call.raw)
    /\ writes # {}

\* the failure descriptions the claims C16 and C17 speak of
IsQuotaFailure(e) == HasMessage(e) /\ Includes(e.message, "quota")
IsRateFailure(e) ==
    HasMessage(e) /\ (Includes(e.message, "429") \/ Includes(e.message, "Too Many Requests"))
IsOtherFailure(e) == ~IsQuotaFailure(e) /\ ~IsRateFailure(e)

\* C16: a failure whose message mentions the quota is shown as an ai
\* message with the quota marker, a failure whose message mentions 429 or
\* Too Many Requests (and not the quota) as one with the rate-limit marker;
\* the markers differ from each other and from the text shown for any
\* other failure.
C16_MarkersByDescription ==
    (ev.kind = "genFail" /\ Live(ev.call.inst))
        => LET e == ev.sdk.error IN
           /\ Last(messages) = Msg(ev.text, "ai")
           /\ IsQuotaFailure(e) => ev.text = QuotaMarker
           /\ (IsRateFailure(e) /\ ~IsQuotaFailure(e)) => ev.text = RateMarker
           /\ IsOtherFailure(e) => ev.text \notin {QuotaMarker, RateMarker}
           /\ QuotaMarker # RateMarker

\* a failure that says Too Many Requests and not 429 was shown
C16_Witness ==
    /\ ev.kind = "genFail"
    /\ Live(ev.call.inst)
    /\ Includes(ev.sdk.error.message, "Too Many Requests")
    /\ ~Includes(ev.sdk.error.message, "429")
    /\ ~IsQuotaFailure(ev.sdk.error)
    /\ Last(messages).text = RateMarker

\* C17: a failure that is neither a quota nor a rate-limit failure is shown
\* with its own message when it has one and with the fallback text when it
\* has none, and the text shown for a failure is never empty.
C17_OwnMessageOrFallback ==
    (ev.kind = "genFail" /\ Live(ev.call.inst))
        => LET e == ev.sdk.error IN
           /\ Last(messages).sender = "ai"
           /\ Last(messages).text # <<>>
           /\ (IsOtherFailure(e) /\ HasMessage(e)) => Last(messages).text = e.message
           /\ ~HasMessage(e) => Last(messages).text = FallbackText

\* a failure without a message was shown
C17_Witness ==
    /\ ev.kind = "genFail"
    /\ Live(ev.call.inst)
    /\ ~ev.sdk.error.defined
    /\ Last(messages) = Msg(FallbackText, "ai")

C19_RouteGating ==
    (phase = "mounted" /\ ~appLoading)
        => /\ mounted <=> View = "chat"
           /\ mounted => user # NoUser
           /\ \A l \in loads : l.uid # NoUser
           /\ \A p \in {"/chat", "/"} : Resolve(NoUser, p) = "/login"
           /\ \A u \in Accounts, p \in {"/login", "/register", "/"} : Resolve(u, p) = "/chat"
           /\ View \in {"landing", "login", "register", "chat"}

\* C20: the step in which generateResponse resolves clears the in-flight
\* flag while the addDoc call it issued is still pending, and a step in
\* which an addDoc call settles, stored or failed, changes neither the
\* messages nor the in-flight flag.
C20_WriteNotAwaited ==
    [][ /\ (ev'.kind = "genOk" /\ Live(ev'.call.inst))
            => /\ ~loading'
               /\ Turn(ev'.call.uid, ev'.call.prompt, ev'.text, now') \in writes'
        /\ (writes' # writes /\ writes' \subseteq writes)
            => UNCHANGED <<mounted, cid, messages, input, loading, genCalls>> ]_vars

\* the write of the second turn was stored while the write of the first is
\* still pending (so the second send was accepted with that write pending),
\* and the sequence shows the turns in the order they were sent
C20_Witness ==
    /\ mounted
    /\ ~loading
    /\ \E w \in writes, d \in store :
          /\ d.timestamp > w.timestamp
          /\ d.userId = w.userId
          /\ Len(messages) >= 4
          /\ messages[Len(messages) - 3] = Msg(w.userPrompt, "user")
          /\ messages[Len(messages) - 2] = Msg(w.aiResponse, "ai")
          /\ messages[Len(messages) - 1] = Msg(d.userPrompt, "user")
          /\ messages[Len(messages)] = Msg(d.aiResponse, "ai")

\* C21: the step in which a generateResponse call of the mounted Chat
\* settles, with a response or with a failure, clears the in-flight flag,
\* and, every call settling eventually, a Chat that is in flight always
\* leaves the in-flight state.
C21_InFlightIsLeft ==
    /\ [](( GenSettled(ev) /\ Live(ev.call.inst) ) => ~loading)
    /\ (mounted /\ loading) ~> ~loading

\* the failure path has cleared the flag of the second send
C21_Witness ==
    /\ ev.kind = "genFail"
    /\ Live(ev.call.inst)
    /\ ev.call.id = 2
    /\ ~loading

\* C22: until the first notification App renders the loading view only: the
\* location is not changed, no Chat is mounted and no history query is
\* issued; and the notification that ends the loading view with a session
\* present does not lead to the login view, while a Chat is mounted and a
\* history query issued only for a present user.
C22_NoRoutingBeforeNotification ==
    [][ /\ (phase' = "mounted" /\ appLoading')
            => /\ View' = "loading"
               /\ path' = path
               /\ ~mounted' /\ cid' = 0 /\ loads' = {}
        /\ (appLoading /\ ~appLoading' /\ session # NoUser)
            => /\ user' = session
               /\ path' # "/login"
               /\ View' # "login"
        /\ mounted' => user' # NoUser
        /\ \A l \in loads' : l.uid # NoUser ]_vars

\* App is mounted at /chat with a persisted session, the notification due
C22_Witness ==
    /\ phase = "mounted"
    /\ appLoading
    /\ notifyDue
    /\ session # NoUser
    /\ path = "/chat"
    /\ View = "loading"

\* C23: generateResponse with an empty or whitespace-only prompt does not
\* call the model and rejects with the error 'Prompt cannot be empty',
\* unchanged by the catch block; and when the model fails with a message
\* that contains 'quota', the rejection carries the quota marker and not
\* the rate-limit marker, also when the message contains '429' or 'Too
\* Many Requests' as well.
C23_EmptyPromptAndQuotaFirst ==
    ev.kind = "generateResponse"
        => /\ Trim(ev.prompt) = <<>>
                => /\ ~ev.called
                   /\ ev.res = Rejected(EmptyPromptError)
           /\ (Trim(ev.prompt) # <<>> /\ ~ev.sdk.ok /\ IsQuotaFailure(ev.sdk.error))
                => /\ ev.called
                   /\ ev.res = Rejected(Err(TRUE, QuotaMarker))
                   /\ ev.res.error.message # RateMarker

\* the model failed with a message that has both 'quota' and '429'
C23_Witness ==
    /\ ev.kind = "generateResponse"
    /\ ev.called
    /\ Includes(ev.sdk.error.message, "quota")
    /\ Includes(ev.sdk.error.message, "429")
    /\ ev.res.error.message = QuotaMarker

\* C24: a submit with an empty email or password sets the error 'Please
\* fill in all fields' and issues no call; a submit with both issues one
\* call with them; when the call of the mounted form settles, the loading
\* flag is false; the location changes only when a call succeeded (or on a
\* notification), and after a failure the error text is not empty.
C24_LoginForm ==
    [][ /\ (ev'.kind = "handleLogin" /\ (login.email = <<>> \/ login.password = <<>>))
            => /\ ~ev'.called
               /\ login' = [login EXCEPT !.error = FillAllFields]
               /\ authCalls' = authCalls
        /\ (ev'.kind = "handleLogin" /\ login.email # <<>> /\ login.password # <<>>)
            => /\ ev'.called
               /\ login'.loading
               /\ \E c \in authCalls' \ authCalls :
                     /\ authCalls' = authCalls \cup {c}
                     /\ c.email = login.email /\ c.password = login.password
        /\ (ev'.kind \in {"loginOk", "loginFail"} /\ ev'.call.live)
            => ~login'.loading
        /\ (ev'.kind = "loginFail" /\ ev'.call.live)
            => /\ login'.error # <<>>
               /\ login'.error = (IF HasMessage(ev'.error) THEN ev'.error.message
                                  ELSE LoginFallback)
        /\ ev'.kind \in {"handleLogin", "loginFail"}
            => UNCHANGED <<path, session, user>>
        /\ ev'.kind = "loginOk"
            => /\ ev'.call.status = "ok"
               /\ path' \in {"/chat", "/login"}
               /\ path' = "/chat" <=> user # NoUser ]_vars

\* a call of the mounted form failed without a message
C24_Witness ==
    /\ ev.kind = "loginFail"
    /\ ev.call.live
    /\ ~ev.error.defined
    /\ View = "login"
    /\ login.error = LoginFallback
    /\ ~login.loading
====
